---- MODULE Spec2Model ----
(***************************************************************************)
(* Model of js/script.js: the joke button controller (fetchJoke,           *)
(* handleJokeButtonClick) and the VoiceRSS speech client.                  *)
(*                                                                         *)
(* JavaScript strings are sequences of one-character strings, so that      *)
(* indexOf, toLowerCase and encodeURIComponent are computed, not assumed.  *)
(* An object is a record; a property that is absent is a field that is not *)
(* in the record's DOMAIN.                                                 *)
(***************************************************************************)
EXTENDS Integers, Sequences, FiniteSets, TLC

(***************************************************************************)
(* Bounds                                                                  *)
(***************************************************************************)
\* accepted clicks (invocations of handleJokeButtonClick) per behaviour
MaxCycles == 2
\* clicks made while the button is disabled, per behaviour
MaxIgnored == 1
\* direct calls of VoiceRSS.speech per behaviour of SpecSpeech
MaxCalls == 1

(***************************************************************************)
(* String literals of the source                                           *)
(***************************************************************************)
LoadingText == <<"L","o","a","d","i","n","g"," ","j","o","k","e",".",".",".">>
ApiKey == <<"Y","O","U","R"," ","A","P","I">>
LangEnUs == <<"e","n","-","u","s">>
CodecMp3 == <<"m","p","3">>
Format44 == <<"4","4","k","h","z","_","1","6","b","i","t","_","s","t","e","r","e","o">>
ErrorMarker == <<"E","R","R","O","R">>
AutoCodec == <<"a","u","t","o">>

(***************************************************************************)
(* JavaScript string primitives                                            *)
(***************************************************************************)
RECURSIVE Concat(_)
\* concatenation of a sequence of strings (template literal / operator +)
Concat(ss) == IF ss = <<>> THEN <<>> ELSE Head(ss) \o Concat(Tail(ss))

\* a comparison of the whole string where the index of the needle is meant
EqualsNeedle(s, needle) == s = needle

\* String.prototype.indexOf(needle) === 0
IndexOfIsZero(s, needle) ==
  /\ Len(s) >= Len(needle)
  /\ SubSeq(s, 1, Len(needle)) = needle

UpperToLower ==
  [c \in {"A","B","C","D","E","F","G","H","I","J","K","L","M","N","O","P","Q",
          "R","S","T","U","V","W","X","Y","Z"} |->
     CASE c = "A" -> "a" [] c = "B" -> "b" [] c = "C" -> "c" [] c = "D" -> "d"
       [] c = "E" -> "e" [] c = "F" -> "f" [] c = "G" -> "g" [] c = "H" -> "h"
       [] c = "I" -> "i" [] c = "J" -> "j" [] c = "K" -> "k" [] c = "L" -> "l"
       [] c = "M" -> "m" [] c = "N" -> "n" [] c = "O" -> "o" [] c = "P" -> "p"
       [] c = "Q" -> "q" [] c = "R" -> "r" [] c = "S" -> "s" [] c = "T" -> "t"
       [] c = "U" -> "u" [] c = "V" -> "v" [] c = "W" -> "w" [] c = "X" -> "x"
       [] c = "Y" -> "y" [] c = "Z" -> "z"]

\* String.prototype.toLowerCase
toLowerCase(s) ==
  [i \in 1..Len(s) |-> IF s[i] \in DOMAIN UpperToLower THEN UpperToLower[s[i]] ELSE s[i]]

\* characters encodeURIComponent leaves alone: A-Z a-z 0-9 - _ . ! ~ * ' ( )
Unreserved ==
  DOMAIN UpperToLower \cup
  {"a","b","c","d","e","f","g","h","i","j","k","l","m","n","o","p","q","r","s",
   "t","u","v","w","x","y","z","0","1","2","3","4","5","6","7","8","9",
   "-","_",".","!","~","*","'","(",")"}

\* the UTF-8 percent escapes of the reserved ASCII characters
PercentEscape(c) ==
  CASE c = " " -> <<"%","2","0">>
    [] c = "%" -> <<"%","2","5">>
    [] c = "&" -> <<"%","2","6">>
    [] c = "+" -> <<"%","2","B">>
    [] c = "," -> <<"%","2","C">>
    [] c = "<" -> <<"%","3","C">>
    [] c = ">" -> <<"%","3","E">>
    [] c = "/" -> <<"%","2","F">>
    [] c = ":" -> <<"%","3","A">>
    [] c = ";" -> <<"%","3","B">>
    [] c = "=" -> <<"%","3","D">>
    [] c = "?" -> <<"%","3","F">>

\* the component written into the body as it is
rawComponent(s) == s

RECURSIVE encodeURIComponent(_)
encodeURIComponent(s) ==
  IF s = <<>> THEN <<>>
  ELSE (IF Head(s) \in Unreserved THEN <<Head(s)>> ELSE PercentEscape(Head(s)))
         \o encodeURIComponent(Tail(s))

\* String(n) for the small integers a speech rate takes
NumberToString(n) ==
  LET digit(d) == <<CASE d = 0 -> "0" [] d = 1 -> "1" [] d = 2 -> "2" [] d = 3 -> "3"
                      [] d = 4 -> "4" [] d = 5 -> "5" [] d = 6 -> "6" [] d = 7 -> "7"
                      [] d = 8 -> "8" [] d = 9 -> "9">>
      abs == IF n < 0 THEN 0 - n ELSE n
      digits == IF abs < 10 THEN digit(abs) ELSE digit(abs \div 10) \o digit(abs % 10)
  IN  IF n < 0 THEN <<"-">> \o digits ELSE digits

(***************************************************************************)
(* Inputs                                                                  *)
(***************************************************************************)
MimeTypes == {"audio/mpeg", "audio/wav", "audio/aac", "audio/ogg", "audio/x-caf"}

\* what HTMLMediaElement.canPlayType answers ("no" is the legacy answer)
ProbeAnswers == {"", "no", "maybe", "probably"}

NoCodecEnv == [m \in MimeTypes |-> ""]

\* the playback environments (browsers) a behaviour runs in
ProbeEnvs ==
  { NoCodecEnv,
    [m \in MimeTypes |-> "no"],
    [m \in MimeTypes |-> "probably"],
    [NoCodecEnv EXCEPT !["audio/mpeg"] = "maybe"],
    [NoCodecEnv EXCEPT !["audio/mpeg"] = "no", !["audio/wav"] = "maybe"],
    [NoCodecEnv EXCEPT !["audio/aac"] = "probably", !["audio/x-caf"] = "maybe"],
    [NoCodecEnv EXCEPT !["audio/wav"] = "no", !["audio/ogg"] = "probably"],
    [NoCodecEnv EXCEPT !["audio/x-caf"] = "probably"] }

\* joke texts the joke API answers with
JokeTexts == { <<>>, <<"H","i">>, <<"Q","&","A"," ","=","?">> }

\* parsed JSON bodies of the joke API: with a joke field, or without one
JokeData == { [joke |-> t] : t \in JokeTexts } \cup { [status |-> 404] }

\* bodies the speech API answers with
AudioA == <<"d","a","t","a",":","A">>
ErrorBody == <<"E","R","R","O","R",":"," ","k","e","y">>
\* a playable body that contains the marker, but not at index 0
ErrorInside == <<"N","O"," ","E","R","R","O","R">>
ResponseTexts == { AudioA, ErrorInside, ErrorBody }

HttpStatuses == { 200, 404 }

\* the object o without the properties of the set fs
Without(o, fs) == [f \in DOMAIN o \ fs |-> o[f]]

\* codec names a caller of VoiceRSS.speech passes as settings.c
CodecNames ==
  { <<>>, AutoCodec, <<"A","U","T","O">>, CodecMp3, <<"M","P","3">>, <<"w","a","v">>,
    <<"a","a","c">>, <<"O","g","g">>, <<"c","a","f">>, <<"f","l","a","c">> }

\* a settings object with every property set, for the codec name c
FullSettings(c) ==
  [key |-> <<"k","1">>, src |-> <<"H","i"," ","&">>, hl |-> LangEnUs, r |-> 0,
   c |-> c, f |-> Format44, ssml |-> <<"<","s",">">>]

\* the settings objects a caller of VoiceRSS.speech passes
SpeechSettings ==
  { FullSettings(c) : c \in CodecNames }
  \cup { Without(FullSettings(CodecMp3), {"c"}),
         Without(FullSettings(CodecMp3), {"r", "c", "f", "ssml"}),
         [FullSettings(<<"w","a","v">>) EXCEPT !.r = 5],
         [FullSettings(AutoCodec) EXCEPT !.r = 0 - 12] }
  \cup { [FullSettings(c) EXCEPT !.key = <<>>] : c \in {CodecMp3, <<"f","l","a","c">>} }
  \cup { Without(FullSettings(c), {"key"}) : c \in {AutoCodec, <<"c","a","f">>} }
  \cup { [FullSettings(CodecMp3) EXCEPT !.src = <<>>],
         Without(FullSettings(<<"f","l","a","c">>), {"src"}),
         [FullSettings(<<"a","a","c">>) EXCEPT !.hl = <<>>],
         Without(FullSettings(AutoCodec), {"hl"}),
         Without(FullSettings(CodecMp3), {"key", "src", "hl"}) }

\* the argument lists of those calls: speech() and speech(settings)
SpeechArgs == { <<>> } \cup { <<settings>> : settings \in SpeechSettings }

(***************************************************************************)
(* State                                                                   *)
(***************************************************************************)
VARIABLES
  disabled,      \* jokeButton.disabled
  textContent,   \* jokeTextElement.textContent
  alerts,        \* number of alert() dialogs shown
  console,       \* console.error calls and uncaught errors, counted per message
  inv,           \* the invocations of handleJokeButtonClick, in order: where each
                 \* stands, what it fetched and how many fetch() calls it made
  ignored,       \* clicks the browser dropped because the button was disabled
  calls,         \* the calls of VoiceRSS.speech, in order: arguments and outcome
  xhrs,          \* the XMLHttpRequest objects created by _getXHR, in order
  audioPresent,  \* whether document.getElementById("audio") finds an element
  audioSrc,      \* audioElement.src
  plays,         \* number of audioElement.play() calls
  canPlayType    \* the answer of Audio.canPlayType for each MIME type

vars == <<disabled, textContent, alerts, console, inv, ignored, calls, xhrs,
          audioPresent, audioSrc, plays, canPlayType>>

ConsoleMessages ==
  { "Error fetching joke:", "Error processing the joke:", "Audio playback failed:",
    "Audio element not found in the DOM.", "HTTP request failed with status",
    "Uncaught Error" }

\* the console after the messages of the set msgs were each written once
Logged(con, msgs) == [m \in ConsoleMessages |-> IF m \in msgs THEN con[m] + 1 ELSE con[m]]

(***************************************************************************)
(* VoiceRSS                                                                *)
(***************************************************************************)
\* a string property that is present and not ""
Truthy(o, f) == f \in DOMAIN o /\ o[f] # <<>>

\* a number property that is present and not 0
TruthyNumber(o, f) == f \in DOMAIN o /\ o[f] # 0

\* o[f] || ""
OrEmpty(o, f) == IF Truthy(o, f) THEN o[f] ELSE <<>>

\* the answer used without the replace
KeepAnswer(answer) == answer

\* answer.replace("no", ""): of the answers of canPlayType only "no" contains "no"
ReplaceNo(answer) == IF answer = "no" THEN "" ELSE answer

\* audio.canPlayType(mime).replace("no", "") taken as a condition
CanPlay(mime) == ReplaceNo(canPlayType[mime]) # ""

\* settings.c && settings.c.toLowerCase() !== "auto"
ExplicitCodec(settings) == Truthy(settings, "c") /\ toLowerCase(settings.c) # AutoCodec

\* the switch of _validate: codecSupported for the codec name c
codecSupported(c) ==
  LET lc == toLowerCase(c)
  IN  CASE lc = <<"m","p","3">> -> CanPlay("audio/mpeg")
        [] lc = <<"w","a","v">> -> CanPlay("audio/wav")
        [] lc = <<"a","a","c">> -> CanPlay("audio/aac")
        [] lc = <<"o","g","g">> -> CanPlay("audio/ogg")
        [] lc = <<"c","a","f">> -> CanPlay("audio/x-caf")
        [] OTHER -> FALSE

NoError == "none"

\* _validate without its check of settings.hl
_validateNoLanguage(args) ==
  IF Len(args) = 0 THEN "The settings are undefined"
  ELSE LET settings == args[1]
       IN  IF ~Truthy(settings, "key") THEN "The API key is undefined"
           ELSE IF ~Truthy(settings, "src") THEN "The text is undefined"
           ELSE IF ExplicitCodec(settings) /\ ~codecSupported(settings.c)
                THEN "The browser does not support the audio codec"
           ELSE NoError

\* the message of the Error _validate throws for the argument list args, or NoError
_validate(args) ==
  IF Len(args) = 0 THEN "The settings are undefined"
  ELSE LET settings == args[1]
       IN  IF ~Truthy(settings, "key") THEN "The API key is undefined"
           ELSE IF ~Truthy(settings, "src") THEN "The text is undefined"
           ELSE IF ~Truthy(settings, "hl") THEN "The language is undefined"
           ELSE IF ExplicitCodec(settings) /\ ~codecSupported(settings.c)
                THEN "The browser does not support the audio codec"
           ELSE NoError

\* _detectCodec probing wav before mp3
_detectCodecWavFirst ==
  IF CanPlay("audio/wav") THEN <<"w","a","v">>
  ELSE IF CanPlay("audio/mpeg") THEN <<"m","p","3">>
  ELSE IF CanPlay("audio/aac") THEN <<"a","a","c">>
  ELSE IF CanPlay("audio/ogg") THEN <<"o","g","g">>
  ELSE IF CanPlay("audio/x-caf") THEN <<"c","a","f">>
  ELSE <<>>

_detectCodec ==
  IF CanPlay("audio/mpeg") THEN <<"m","p","3">>
  ELSE IF CanPlay("audio/wav") THEN <<"w","a","v">>
  ELSE IF CanPlay("audio/aac") THEN <<"a","a","c">>
  ELSE IF CanPlay("audio/ogg") THEN <<"o","g","g">>
  ELSE IF CanPlay("audio/x-caf") THEN <<"c","a","f">>
  ELSE <<>>

\* the rate written whenever the property is present, 0 included
RateTextIfPresent(settings) ==
  IF "r" \in DOMAIN settings THEN NumberToString(settings.r) ELSE <<>>

\* the value of the r field: settings.r || ""
RateText(settings) == IF TruthyNumber(settings, "r") THEN NumberToString(settings.r) ELSE <<>>

\* the codec sent in lower case instead of as named
LowerCaseCodecOf(settings) ==
  IF ExplicitCodec(settings) THEN toLowerCase(settings.c) ELSE _detectCodec

\* const codec of _buildRequest: the codec named, or the one detected
CodecOf(settings) == IF ExplicitCodec(settings) THEN settings.c ELSE _detectCodec

_buildRequest(settings) ==
  LET codec == CodecOf(settings)
  IN  Concat(<< <<"k","e","y","=">>, encodeURIComponent(OrEmpty(settings, "key")),
                <<"&","s","r","c","=">>, encodeURIComponent(OrEmpty(settings, "src")),
                <<"&","h","l","=">>, encodeURIComponent(OrEmpty(settings, "hl")),
                <<"&","r","=">>, encodeURIComponent(RateText(settings)),
                <<"&","c","=">>, encodeURIComponent(codec),
                <<"&","f","=">>, encodeURIComponent(OrEmpty(settings, "f")),
                <<"&","s","s","m","l","=">>, encodeURIComponent(OrEmpty(settings, "ssml")),
                <<"&","b","6","4","=","t","r","u","e">> >>)

\* the XMLHttpRequest after open("POST", ...) and send(requestBody)
_getXHR(requestBody) ==
  [readyState |-> 1, status |-> 0, responseText |-> <<>>, requestBody |-> requestBody]

\* _request sending the body on two XMLHttpRequest objects
_requestTwice(settings) ==
  Append(Append(xhrs, _getXHR(_buildRequest(settings))), _getXHR(_buildRequest(settings)))

\* the requests after _request(settings): one more, sent
_request(settings) == Append(xhrs, _getXHR(_buildRequest(settings)))

\* the requests after speech(...args): _validate throws before _request runs
speech(args) == IF _validate(args) = NoError THEN _request(args[1]) ELSE xhrs

\* the record of a call of speech: arguments, the Error thrown, the request made
CallRecord(args) ==
  [args |-> args, thrown |-> _validate(args),
   xhr |-> IF _validate(args) = NoError THEN Len(xhrs) + 1 ELSE 0]

(***************************************************************************)
(* The completion handler of a speech request (xhr.onreadystatechange)     *)
(***************************************************************************)
\* alert() is modal: while a dialog is open the page runs no other handler
AlertOpen == \E i \in 1..Len(inv) : inv[i].pc = "alert"

\* the handler throws new Error(xhr.responseText): status 200, body starts with "ERROR"
RemoteError(status, text) == status = 200 /\ IndexOfIsZero(text, ErrorMarker)

\* the handler reaching the playback element whatever the status
ReachesPlaybackAnyStatus(status, text) == ~IndexOfIsZero(text, ErrorMarker)

\* the handler reaches the playback element: status 200 and no error marker
ReachesPlayback(status, text) == status = 200 /\ ~RemoteError(status, text)

\* audioElement.src assigned only while it is still empty
FirstAudioSrc(text) == IF audioSrc = <<>> THEN text ELSE audioSrc

\* audioElement.src = xhr.responseText
NewAudioSrc(text) == text

\* readyState 2 (HEADERS_RECEIVED) or 3 (LOADING): the handler runs and does nothing
XhrProgress(k) ==
  /\ ~AlertOpen
  /\ xhrs[k].readyState \in {1, 2}
  /\ xhrs' = [xhrs EXCEPT ![k].readyState = @ + 1]
  /\ UNCHANGED <<disabled, textContent, alerts, console, inv, ignored, calls,
                 audioPresent, audioSrc, plays, canPlayType>>

\* the handler surfacing a remote error to the page: the display is cleared
XhrDoneSurfacesError(k, status, text, played) ==
  /\ ~AlertOpen
  /\ xhrs[k].readyState \in {1, 2, 3}
  /\ xhrs' = [xhrs EXCEPT ![k].readyState = 4, ![k].status = status,
                          ![k].responseText = text]
  /\ IF ReachesPlayback(status, text) /\ audioPresent
       THEN /\ audioSrc' = NewAudioSrc(text)
            /\ plays' = plays + 1
            /\ console' = IF played THEN console
                          ELSE Logged(console, {"Audio playback failed:"})
       ELSE /\ played
            /\ UNCHANGED <<audioSrc, plays>>
            /\ console' =
                 IF RemoteError(status, text) THEN Logged(console, {"Uncaught Error"})
                 ELSE IF status = 200
                   THEN Logged(console, {"Audio element not found in the DOM."})
                 ELSE Logged(console, {"HTTP request failed with status"})
  /\ textContent' = IF RemoteError(status, text) THEN <<>> ELSE textContent
  /\ UNCHANGED <<disabled, alerts, inv, ignored, calls, audioPresent, canPlayType>>

\* readyState 4 (DONE) with the given status and body; played: play() resolved
XhrDone(k, status, text, played) ==
  /\ ~AlertOpen
  /\ xhrs[k].readyState \in {1, 2, 3}
  /\ xhrs' = [xhrs EXCEPT ![k].readyState = 4, ![k].status = status,
                          ![k].responseText = text]
  /\ IF ReachesPlayback(status, text) /\ audioPresent
       THEN /\ audioSrc' = NewAudioSrc(text)
            /\ plays' = plays + 1
            /\ console' = IF played THEN console
                          ELSE Logged(console, {"Audio playback failed:"})
       ELSE /\ played
            /\ UNCHANGED <<audioSrc, plays>>
            /\ console' =
                 IF RemoteError(status, text) THEN Logged(console, {"Uncaught Error"})
                 ELSE IF status = 200
                   THEN Logged(console, {"Audio element not found in the DOM."})
                 ELSE Logged(console, {"HTTP request failed with status"})
  /\ UNCHANGED <<disabled, textContent, alerts, inv, ignored, calls,
                 audioPresent, canPlayType>>

(***************************************************************************)
(* The joke button                                                         *)
(***************************************************************************)
\* data.joke assigned to textContent: undefined is written as ""
JokeOf(data) == IF "joke" \in DOMAIN data THEN data.joke ELSE <<>>

\* the settings object handleJokeButtonClick passes to VoiceRSS.speech
SettingsOf(data) ==
  IF "joke" \in DOMAIN data
    THEN [key |-> ApiKey, src |-> data.joke, hl |-> LangEnUs, r |-> 0,
          c |-> CodecMp3, f |-> Format44]
    ELSE [key |-> ApiKey, hl |-> LangEnUs, r |-> 0, c |-> CodecMp3, f |-> Format44]

\* a click event reaching the listener whatever the state of the button
ClickAlwaysDispatched == TRUE

\* a click event reaches the listener only while the button is enabled
ClickDispatched == ~disabled

\* the button left enabled while the cycle runs
EnabledOnClick == FALSE

\* jokeButton.disabled while the cycle runs
DisabledOnClick == TRUE

\* the button left disabled after the finally block
DisabledKept == TRUE

\* jokeButton.disabled after the finally block
DisabledAfterFinally == FALSE

\* the catch block of handleJokeButtonClick catches what the try block throws
Caught(thrown) == thrown # NoError

\* a click on the disabled button: the browser dispatches no event
ClickIgnored ==
  /\ ~AlertOpen
  /\ ~ClickDispatched
  /\ ignored < MaxIgnored
  /\ ignored' = ignored + 1
  /\ UNCHANGED <<disabled, textContent, alerts, console, inv, calls, xhrs,
                 audioPresent, audioSrc, plays, canPlayType>>

\* handleJokeButtonClick up to the await of fetchJoke()
handleJokeButtonClick ==
  /\ ~AlertOpen
  /\ ClickDispatched
  /\ Len(inv) < MaxCycles
  /\ disabled' = DisabledOnClick
  /\ textContent' = LoadingText
  /\ inv' = Append(inv, [pc |-> "fetch", outcome |-> "pending", joke |-> <<>>, call |-> 0,
                         fetches |-> 1])
  /\ UNCHANGED <<alerts, console, ignored, calls, xhrs,
                 audioPresent, audioSrc, plays, canPlayType>>

\* fetchJoke: fetch() resolved with a response, response.json() is awaited
FetchResponds(i) ==
  /\ ~AlertOpen
  /\ inv[i].pc = "fetch"
  /\ inv' = [inv EXCEPT ![i].pc = "json"]
  /\ UNCHANGED <<disabled, textContent, alerts, console, ignored, calls, xhrs,
                 audioPresent, audioSrc, plays, canPlayType>>

\* fetchJoke calling fetch() once more after the first failure
FetchJokeRetries(i) ==
  IF inv[i].fetches < 2
    THEN /\ console' = Logged(console, {"Error fetching joke:"})
         /\ inv' = [inv EXCEPT ![i].pc = "fetch", ![i].fetches = @ + 1]
         /\ UNCHANGED <<disabled, textContent, alerts, ignored, calls, xhrs,
                        audioPresent, audioSrc, plays, canPlayType>>
    ELSE /\ console' = Logged(console, {"Error fetching joke:",
                                         "Error processing the joke:"})
         /\ alerts' = alerts + 1
         /\ inv' = [inv EXCEPT ![i].pc = "alert", ![i].outcome = "fetchFailed"]
         /\ UNCHANGED <<disabled, textContent, ignored, calls, xhrs,
                        audioPresent, audioSrc, plays, canPlayType>>

\* fetchJoke throws "Failed to fetch a joke.": the catch block runs up to alert()
FetchJokeThrows(i) ==
  /\ console' = Logged(console, {"Error fetching joke:", "Error processing the joke:"})
  /\ alerts' = alerts + 1
  /\ inv' = [inv EXCEPT ![i].pc = "alert", ![i].outcome = "fetchFailed"]
  /\ UNCHANGED <<disabled, textContent, ignored, calls, xhrs,
                 audioPresent, audioSrc, plays, canPlayType>>

\* fetch() rejected: a network error
FetchRejects(i) ==
  /\ ~AlertOpen
  /\ inv[i].pc = "fetch"
  /\ FetchJokeThrows(i)

\* response.json() rejected: the body is not JSON
JsonRejects(i) ==
  /\ ~AlertOpen
  /\ inv[i].pc = "json"
  /\ FetchJokeThrows(i)

\* response.json() resolved with data: the rest of the try block, then either
\* the finally block or the catch block up to alert()
JsonResolves(i, data) ==
  /\ ~AlertOpen
  /\ inv[i].pc = "json"
  /\ LET args == <<SettingsOf(data)>>
         thrown == _validate(args)
     IN  /\ textContent' = JokeOf(data)
         /\ calls' = Append(calls, CallRecord(args))
         /\ xhrs' = speech(args)
         /\ IF Caught(thrown)
              THEN /\ console' = Logged(console, {"Error processing the joke:"})
                   /\ alerts' = alerts + 1
                   /\ inv' = [inv EXCEPT ![i] = [pc |-> "alert", outcome |-> "speechThrew",
                                                 joke |-> JokeOf(data),
                                                 call |-> Len(calls) + 1,
                                                 fetches |-> inv[i].fetches]]
                   /\ UNCHANGED disabled
              ELSE /\ inv' = [inv EXCEPT ![i] = [pc |-> "done", outcome |-> "displayed",
                                                 joke |-> JokeOf(data),
                                                 call |-> Len(calls) + 1,
                                                 fetches |-> inv[i].fetches]]
                   /\ disabled' = DisabledAfterFinally
                   /\ UNCHANGED <<alerts, console>>
  /\ UNCHANGED <<ignored, audioPresent, audioSrc, plays, canPlayType>>

\* the catch block without a finally block after it
AlertDismissedNoFinally(i) ==
  /\ inv[i].pc = "alert"
  /\ textContent' = <<>>
  /\ inv' = [inv EXCEPT ![i].pc = "done"]
  /\ UNCHANGED <<disabled, alerts, console, ignored, calls, xhrs,
                 audioPresent, audioSrc, plays, canPlayType>>

\* the catch block without the assignment that clears the display
AlertDismissedKeepsText(i) ==
  /\ inv[i].pc = "alert"
  /\ disabled' = DisabledAfterFinally
  /\ inv' = [inv EXCEPT ![i].pc = "done"]
  /\ UNCHANGED <<textContent, alerts, console, ignored, calls, xhrs,
                 audioPresent, audioSrc, plays, canPlayType>>

\* the alert is dismissed: the rest of the catch block, then the finally block
AlertDismissed(i) ==
  /\ inv[i].pc = "alert"
  /\ textContent' = <<>>
  /\ disabled' = DisabledAfterFinally
  /\ inv' = [inv EXCEPT ![i].pc = "done"]
  /\ UNCHANGED <<alerts, console, ignored, calls, xhrs,
                 audioPresent, audioSrc, plays, canPlayType>>

(***************************************************************************)
(* The page                                                                *)
(***************************************************************************)
Init ==
  /\ disabled = FALSE
  /\ textContent = <<>>
  /\ alerts = 0
  /\ console = [m \in ConsoleMessages |-> 0]
  /\ inv = <<>>
  /\ ignored = 0
  /\ calls = <<>>
  /\ xhrs = <<>>
  /\ audioPresent \in BOOLEAN
  /\ audioSrc = <<>>
  /\ plays = 0
  /\ canPlayType \in ProbeEnvs

Next ==
  \/ ClickIgnored
  \/ handleJokeButtonClick
  \/ \E i \in 1..Len(inv) : FetchResponds(i)
  \/ \E i \in 1..Len(inv) : FetchRejects(i)
  \/ \E i \in 1..Len(inv) : JsonRejects(i)
  \/ \E i \in 1..Len(inv), data \in JokeData : JsonResolves(i, data)
  \/ \E i \in 1..Len(inv) : AlertDismissed(i)
  \/ \E k \in 1..Len(xhrs) : XhrProgress(k)
  \/ \E k \in 1..Len(xhrs), status \in HttpStatuses, text \in ResponseTexts,
        played \in BOOLEAN : XhrDone(k, status, text, played)

Spec == Init /\ [][Next]_vars

(***************************************************************************)
(* VoiceRSS called directly                                                *)
(***************************************************************************)
\* a script calls VoiceRSS.speech(...args)
SpeechCall(args) ==
  /\ Len(calls) < MaxCalls
  /\ calls' = Append(calls, CallRecord(args))
  /\ xhrs' = speech(args)
  /\ UNCHANGED <<disabled, textContent, alerts, console, inv, ignored,
                 audioPresent, audioSrc, plays, canPlayType>>

NextSpeech ==
  \/ \E args \in SpeechArgs : SpeechCall(args)
  \/ \E k \in 1..Len(xhrs) : XhrProgress(k)
  \/ \E k \in 1..Len(xhrs), status \in HttpStatuses, text \in ResponseTexts,
        played \in BOOLEAN : XhrDone(k, status, text, played)

SpecSpeech == Init /\ [][NextSpeech]_vars

(***************************************************************************)
(* Reading a request body the way the speech API does                      *)
(***************************************************************************)
ReservedChars == {" ", "%", "&", "+", ",", "/", ":", ";", "=", "?", "<", ">"}

RECURSIVE SplitOn(_, _)
\* the pieces of s between the occurrences of the character sep
SplitOn(s, sep) ==
  LET at == {j \in 1..Len(s) : s[j] = sep}
  IN  IF at = {} THEN <<s>>
      ELSE LET k == CHOOSE j \in at : \A m \in at : j <= m
           IN  <<SubSeq(s, 1, k - 1)>> \o SplitOn(SubSeq(s, k + 1, Len(s)), sep)

RECURSIVE PercentDecode(_)
\* the text a percent-encoded form value stands for
PercentDecode(s) ==
  IF s = <<>> THEN <<>>
  ELSE IF Head(s) = "%" /\ Len(s) >= 3
            /\ \E c \in ReservedChars : PercentEscape(c) = SubSeq(s, 1, 3)
         THEN <<CHOOSE c \in ReservedChars : PercentEscape(c) = SubSeq(s, 1, 3)>>
                \o PercentDecode(SubSeq(s, 4, Len(s)))
         ELSE <<Head(s)>> \o PercentDecode(Tail(s))

\* whether the body has exactly one field called name and its value is value
HasField(body, name, value) ==
  LET parts == SplitOn(body, "&")
      prefix == name \o <<"=">>
      at == {j \in 1..Len(parts) :
               Len(parts[j]) >= Len(prefix) /\ SubSeq(parts[j], 1, Len(prefix)) = prefix}
  IN  /\ Cardinality(at) = 1
      /\ \A j \in at :
           LET raw == SubSeq(parts[j], Len(prefix) + 1, Len(parts[j]))
           IN  /\ \A m \in 1..Len(raw) : raw[m] # "="
               /\ PercentDecode(raw) = value

\* the capability probe reports the MIME type playable
ProbeSupports(mime) == canPlayType[mime] \in {"maybe", "probably"}

\* the body begins with the literal ERROR
BeginsWithERROR(text) ==
  /\ Len(text) >= 5
  /\ text[1] = "E" /\ text[2] = "R" /\ text[3] = "R" /\ text[4] = "O" /\ text[5] = "R"

\* the invocations whose joke fetch is in flight
InFlight == {i \in 1..Len(inv) : inv[i].pc \in {"fetch", "json"}}

\* the joke API answered invocation i with a JSON body that has joke text
GotJokeText(i) == inv[i].call # 0 /\ "src" \in DOMAIN calls[inv[i].call].args[1]

\* the property f of the settings of a call is absent or empty
Missing(args, f) == args = <<>> \/ f \notin DOMAIN args[1] \/ args[1][f] = <<>>

\* apiKey, text or languageCode is empty or absent
LacksRequired(args) == Missing(args, "key") \/ Missing(args, "src") \/ Missing(args, "hl")

InvalidRequestErrors ==
  { "The settings are undefined", "The API key is undefined", "The text is undefined",
    "The language is undefined" }

UnsupportedCodecError == "The browser does not support the audio codec"

\* the call names a codec other than auto (in any letter case)
NamesCodec(args) == ~Missing(args, "c") /\ toLowerCase(args[1].c) # <<"a","u","t","o">>

CodecOrder == << <<"m","p","3">>, <<"w","a","v">>, <<"a","a","c">>, <<"o","g","g">>,
                 <<"c","a","f">> >>

MimeOrder == <<"audio/mpeg", "audio/wav", "audio/aac", "audio/ogg", "audio/x-caf">>

\* the probe reports the codec name c playable
ProbeSupportsCodec(c) ==
  \E j \in 1..5 : toLowerCase(c) = CodecOrder[j] /\ ProbeSupports(MimeOrder[j])

\* the first of mp3, wav, aac, ogg, caf the probe reports playable, or ""
FirstSupported ==
  LET ok == {j \in 1..5 : ProbeSupports(MimeOrder[j])}
  IN  IF ok = {} THEN <<>> ELSE CodecOrder[CHOOSE j \in ok : \A m \in ok : j <= m]

\* call n of speech issued a POST of its own
PostedOnce(n) ==
  /\ calls[n].xhr \in 1..Len(xhrs)
  /\ \A m \in 1..Len(calls) : m # n => calls[m].xhr # calls[n].xhr

(***************************************************************************)
(* Properties                                                              *)
(***************************************************************************)
\* C1: at most one joke fetch is in flight in every reachable state; a click
\* on the disabled button starts no second fetch.
C1_AtMostOneFetchInFlight == Cardinality(InFlight) <= 1

\* a click was dropped while the first cycle's fetch is still the only one
C1_Witness == ignored > 0 /\ Len(inv) = 1 /\ Cardinality(InFlight) = 1

\* C2: every step that ends a cycle (fetch failed, speech call made, or speech
\* call threw) leaves the button enabled.
C2_CycleEndsEnabled ==
  [][\A i \in 1..Len(inv) :
       (inv[i].pc # "done" /\ inv'[i].pc = "done") => ~disabled']_vars

\* cycles of all three outcomes have ended and the button is enabled
C2_Witness ==
  /\ ~disabled
  /\ \E i \in 1..Len(inv) : inv[i].pc = "done" /\ inv[i].outcome = "speechThrew"
  /\ \E i \in 1..Len(inv) : inv[i].pc = "done" /\ inv[i].outcome # "speechThrew"

\* C3: the failure notice is shown only for a failed joke fetch: as many
\* notices have been shown as joke fetches have failed.
C3_NoticeOnlyForFetchFailure ==
  alerts = Cardinality({i \in 1..Len(inv) : inv[i].outcome = "fetchFailed"})

\* C4 as stated: whenever the joke API answered with joke text t, the cycle ends
\* with t displayed and one POST issued whose src field is t.
C4_Original ==
  \A i \in 1..Len(inv) :
    (inv[i].pc = "done" /\ GotJokeText(i)) =>
      /\ calls[inv[i].call].xhr \in 1..Len(xhrs)
      /\ HasField(xhrs[calls[inv[i].call].xhr].requestBody, <<"s","r","c">>, inv[i].joke)
      /\ (i = Len(inv) => textContent = inv[i].joke)

\* C4 amended: whenever the joke API answered with a non-empty joke text t and
\* the probe reports audio/mpeg playable, the cycle ends with t displayed and
\* exactly one POST issued for it, whose src field is t.
C4_JokeDisplayedAndSpoken ==
  \A i \in 1..Len(inv) :
    (/\ inv[i].pc = "done" /\ GotJokeText(i)
     /\ inv[i].joke # <<>> /\ ProbeSupports("audio/mpeg")) =>
      /\ calls[inv[i].call].xhr \in 1..Len(xhrs)
      /\ \A j \in 1..Len(inv) : (j # i /\ inv[j].call # 0) =>
           calls[inv[j].call].xhr # calls[inv[i].call].xhr
      /\ HasField(xhrs[calls[inv[i].call].xhr].requestBody, <<"s","r","c">>, inv[i].joke)
      /\ (i = Len(inv) => textContent = inv[i].joke)

\* a joke with reserved characters is displayed and its request is out
C4_Witness ==
  /\ Len(inv) = 1 /\ inv[1].pc = "done" /\ inv[1].outcome = "displayed"
  /\ inv[1].joke = <<"Q","&","A"," ","=","?">>
  /\ textContent = inv[1].joke
  /\ Len(xhrs) = 1

\* C5: the step that completes a speech request with status 200 and a body
\* beginning with ERROR neither assigns the audio source nor calls play.
C5_ErrorBodyLeavesPlayback ==
  [][\A k \in 1..Len(xhrs) :
       (/\ xhrs[k].readyState # 4 /\ xhrs'[k].readyState = 4
        /\ xhrs'[k].status = 200 /\ BeginsWithERROR(xhrs'[k].responseText)) =>
         (audioSrc' = audioSrc /\ plays' = plays)]_vars

\* an ERROR body longer than the marker arrived while an audio element exists
C5_Witness ==
  /\ audioPresent
  /\ \E k \in 1..Len(xhrs) :
       /\ xhrs[k].readyState = 4 /\ xhrs[k].status = 200
       /\ xhrs[k].responseText = ErrorBody
  /\ plays = 0 /\ audioSrc = <<>>

\* C6: a call of speech whose key, src or hl is empty or absent throws an
\* InvalidRequest error and sends no POST.
C6_InvalidRequestBeforeNetwork ==
  /\ \A n \in 1..Len(calls) :
       LacksRequired(calls[n].args) =>
         calls[n].thrown \in InvalidRequestErrors /\ calls[n].xhr = 0
  /\ Len(xhrs) <= Cardinality({n \in 1..Len(calls) : ~LacksRequired(calls[n].args)})

\* a call with every property but the language has thrown and nothing was sent
C6_Witness ==
  /\ Len(calls) = 1 /\ xhrs = <<>>
  /\ calls[1].args = <<Without(FullSettings(AutoCodec), {"hl"})>>
  /\ calls[1].thrown = "The language is undefined"

\* C7 as stated: a call naming a codec the probe reports unsupported throws
\* the UnsupportedCodec error and sends no POST.
C7_Original ==
  \A n \in 1..Len(calls) :
    (NamesCodec(calls[n].args) /\ ~ProbeSupportsCodec(calls[n].args[1].c)) =>
      calls[n].thrown = UnsupportedCodecError /\ calls[n].xhr = 0

\* C7 amended: a call with non-empty key, src and hl naming a codec the probe
\* reports unsupported throws the UnsupportedCodec error, and no call naming
\* such a codec sends a POST.
C7_UnsupportedCodecBeforeNetwork ==
  /\ \A n \in 1..Len(calls) :
       (NamesCodec(calls[n].args) /\ ~ProbeSupportsCodec(calls[n].args[1].c)) =>
         /\ calls[n].xhr = 0
         /\ ~LacksRequired(calls[n].args) => calls[n].thrown = UnsupportedCodecError
  /\ Len(xhrs) <= Cardinality({n \in 1..Len(calls) :
                     ~(NamesCodec(calls[n].args)
                       /\ ~ProbeSupportsCodec(calls[n].args[1].c))})

\* mp3 was requested where the probe answers "no" to audio/mpeg: the call threw
C7_Witness ==
  /\ canPlayType["audio/mpeg"] = "no"
  /\ Len(calls) = 1 /\ xhrs = <<>>
  /\ calls[1].args = <<FullSettings(CodecMp3)>>
  /\ calls[1].thrown = UnsupportedCodecError

\* C8: a call with non-empty key, src and hl naming a codec the probe reports
\* supported sends exactly one POST, whose c field is the codec as named.
C8_ExplicitCodecSent ==
  \A n \in 1..Len(calls) :
    (/\ ~LacksRequired(calls[n].args) /\ NamesCodec(calls[n].args)
     /\ ProbeSupportsCodec(calls[n].args[1].c)) =>
      /\ calls[n].thrown = NoError
      /\ PostedOnce(n)
      /\ HasField(xhrs[calls[n].xhr].requestBody, <<"c">>, calls[n].args[1].c)

\* a codec named in upper case was sent as named
C8_Witness ==
  /\ Len(calls) = 1 /\ Len(xhrs) = 1
  /\ calls[1].args = <<FullSettings(<<"M","P","3">>)>>
  /\ calls[1].xhr = 1

\* C9: a call with non-empty key, src and hl and codec auto or omitted sends a
\* POST whose c field is the first of mp3, wav, aac, ogg, caf that the probe
\* reports supported, and is empty when it reports none.
C9_AutoCodecDetected ==
  \A n \in 1..Len(calls) :
    (~LacksRequired(calls[n].args) /\ ~NamesCodec(calls[n].args)) =>
      /\ calls[n].thrown = NoError
      /\ PostedOnce(n)
      /\ HasField(xhrs[calls[n].xhr].requestBody, <<"c">>, FirstSupported)

\* a call without a codec was sent with aac, the first one supported there
C9_Witness ==
  /\ Len(calls) = 1 /\ Len(xhrs) = 1
  /\ "c" \notin DOMAIN calls[1].args[1]
  /\ canPlayType["audio/aac"] = "probably" /\ FirstSupported = <<"a","a","c">>
  /\ HasField(xhrs[1].requestBody, <<"c">>, <<"a","a","c">>)

\* the request is still sent, with an empty c field, where nothing is playable
C9_WitnessNone ==
  /\ Len(calls) = 1 /\ Len(xhrs) = 1
  /\ FirstSupported = <<>>
  /\ HasField(xhrs[1].requestBody, <<"c">>, <<>>)

\* C10: a cycle whose joke fetch failed (network error or unparsable body) has
\* shown the failure notice and made no speech call; when it ends the display
\* is empty and the button enabled.
C10_FetchFailure ==
  /\ \A i \in 1..Len(inv) :
       inv[i].outcome = "fetchFailed" =>
         /\ inv[i].pc \in {"alert", "done"}
         /\ inv[i].call = 0
         /\ (inv[i].pc = "done" /\ i = Len(inv)) => (textContent = <<>> /\ ~disabled)
  /\ alerts >= Cardinality({i \in 1..Len(inv) : inv[i].outcome = "fetchFailed"})
  /\ Len(xhrs) <= Cardinality({i \in 1..Len(inv) : inv[i].outcome = "displayed"})

\* the only cycle failed at its fetch and has ended
C10_Witness ==
  /\ Len(inv) = 1 /\ inv[1].pc = "done" /\ inv[1].outcome = "fetchFailed"
  /\ alerts = 1 /\ textContent = <<>> /\ ~disabled /\ calls = <<>> /\ xhrs = <<>>

\* C11: a step that handles a speech response (any status, any body) leaves the
\* button's disabled flag, the display text, the notices and the invocations of
\* the controller as they were.
C11_ResponseLeavesController ==
  [][(xhrs' # xhrs /\ Len(xhrs') = Len(xhrs)) =>
       /\ disabled' = disabled /\ textContent' = textContent
       /\ alerts' = alerts /\ inv' = inv /\ calls' = calls]_vars

\* an ERROR response has arrived and the joke of its cycle is still displayed
C11_Witness ==
  /\ Len(inv) = 1 /\ inv[1].pc = "done" /\ inv[1].outcome = "displayed"
  /\ Len(xhrs) = 1 /\ xhrs[1].readyState = 4 /\ xhrs[1].status = 200
  /\ xhrs[1].responseText = ErrorBody
  /\ textContent = <<"H","i">> /\ ~disabled

\* the state of the controller: Displaying is passed within one step
Controller ==
  IF \E i \in 1..Len(inv) : inv[i].pc \in {"fetch", "json"} THEN "Fetching"
  ELSE IF \E i \in 1..Len(inv) : inv[i].pc = "alert" /\ inv[i].call = 0 THEN "FetchFailed"
  ELSE IF \E i \in 1..Len(inv) : inv[i].pc = "alert" THEN "FailedAfterDisplaying"
  ELSE "Idle"

\* C12: the controller takes only the transitions Idle -> Fetching,
\* Fetching -> Displaying -> Idle, Fetching -> FetchFailed and FetchFailed -> Idle:
\* no cycle that rendered its joke shows the failure notice afterwards.
C12_OnlySpecTransitions ==
  [][Controller' # Controller =>
       <<Controller, Controller'>> \in
         { <<"Idle", "Fetching">>, <<"Fetching", "Idle">>,
           <<"Fetching", "FetchFailed">>, <<"FetchFailed", "Idle">> }]_vars

\* C13: while a joke fetch is in flight the button is disabled and the display
\* shows the loading indicator.
C13_BusyWhileFetching ==
  InFlight # {} => (disabled /\ textContent = LoadingText)

\* the second cycle is fetching after the first one's audio has arrived
C13_Witness ==
  /\ Len(inv) = 2 /\ inv[2].pc = "json" /\ inv[1].outcome = "displayed"
  /\ audioSrc = AudioA
  /\ disabled /\ textContent = LoadingText

\* C14: the step that issues a speech POST also re-enables the button and ends
\* the cycle, with the request still open: the response is not awaited.
C14_FireAndForget ==
  [][Len(xhrs') > Len(xhrs) =>
       /\ ~disabled'
       /\ xhrs'[Len(xhrs')].readyState = 1
       /\ \E i \in 1..Len(inv) :
            /\ inv[i].pc = "json" /\ inv'[i].pc = "done"
            /\ calls'[inv'[i].call].xhr = Len(xhrs')]_vars

\* a second cycle has started and finished, its response included, while the
\* response of the first cycle's speech request is still outstanding
C14_Witness ==
  /\ Len(inv) = 2 /\ inv[1].pc = "done" /\ inv[2].pc = "done" /\ ~disabled
  /\ inv[1].call # 0 /\ calls[inv[1].call].xhr = 1
  /\ Len(xhrs) = 2 /\ xhrs[1].readyState = 1 /\ xhrs[2].readyState = 4

\* C15: the step that completes a speech request with a status other than 200
\* logs the failure and nothing else: the audio source and the play count stay,
\* no error is raised, and no call of speech is affected.
C15_Non200OnlyLogs ==
  [][\A k \in 1..Len(xhrs) :
       (xhrs[k].readyState # 4 /\ xhrs'[k].readyState = 4 /\ xhrs'[k].status # 200) =>
         /\ audioSrc' = audioSrc /\ plays' = plays
         /\ console'["HTTP request failed with status"] =
              console["HTTP request failed with status"] + 1
         /\ \A m \in ConsoleMessages \ {"HTTP request failed with status"} :
              console'[m] = console[m]
         /\ calls' = calls /\ alerts' = alerts /\ inv' = inv]_vars

\* a 404 with a playable body has arrived where an audio element exists
C15_Witness ==
  /\ audioPresent /\ plays = 0 /\ audioSrc = <<>>
  /\ \E k \in 1..Len(xhrs) :
       /\ xhrs[k].readyState = 4 /\ xhrs[k].status = 404
       /\ xhrs[k].responseText = AudioA
  /\ console["HTTP request failed with status"] = 1

\* C16: every invocation has called fetch() exactly once, whatever failed; a
\* step issues a speech POST only as the step in which a fetched joke is
\* handled, and then exactly one.
C16_NoRetry ==
  [][/\ \A i \in 1..Len(inv') : inv'[i].fetches = 1
     /\ Len(xhrs') # Len(xhrs) =>
          /\ Len(xhrs') = Len(xhrs) + 1
          /\ \E i \in 1..Len(inv) : inv[i].pc = "json" /\ inv'[i].pc = "done"
     /\ (\E k \in 1..Len(xhrs) : xhrs'[k] # xhrs[k]) =>
          (Len(xhrs') = Len(xhrs) /\ inv' = inv)]_vars

\* a fetch failure, then a cycle whose speech request got a 404: two fetches
\* for two clicks and one POST
C16_Witness ==
  /\ Len(inv) = 2 /\ inv[1].pc = "done" /\ inv[1].outcome = "fetchFailed"
  /\ inv[2].pc = "done" /\ inv[2].outcome = "displayed"
  /\ inv[1].fetches + inv[2].fetches = 2
  /\ Len(xhrs) = 1 /\ xhrs[1].readyState = 4 /\ xhrs[1].status = 404

\* the names of the form fields of a body, in order
FieldNames(body) ==
  LET parts == SplitOn(body, "&")
  IN  [j \in 1..Len(parts) |-> SplitOn(parts[j], "=")[1]]

\* the property f of the settings is absent or empty
Absent(settings, f) == f \notin DOMAIN settings \/ settings[f] = <<>>

\* C17: the body of every request sent has exactly the fields key, src, hl, r,
\* c, f, ssml, b64 in this order, with b64 true; a request whose f or ssml is
\* absent, or whose rate is absent or 0, carries that field with an empty value.
C17_FixedFieldOrder ==
  /\ \A k \in 1..Len(xhrs) :
       /\ FieldNames(xhrs[k].requestBody) =
            << <<"k","e","y">>, <<"s","r","c">>, <<"h","l">>, <<"r">>, <<"c">>, <<"f">>,
               <<"s","s","m","l">>, <<"b","6","4">> >>
       /\ HasField(xhrs[k].requestBody, <<"b","6","4">>, <<"t","r","u","e">>)
  /\ \A n \in 1..Len(calls) :
       calls[n].xhr # 0 =>
         LET settings == calls[n].args[1]
             body == xhrs[calls[n].xhr].requestBody
         IN  /\ Absent(settings, "f") => HasField(body, <<"f">>, <<>>)
             /\ Absent(settings, "ssml") => HasField(body, <<"s","s","m","l">>, <<>>)
             /\ ("r" \notin DOMAIN settings \/ settings.r = 0) =>
                  HasField(body, <<"r">>, <<>>)
             /\ ("r" \in DOMAIN settings /\ settings.r = 5) =>
                  HasField(body, <<"r">>, <<"5">>)

\* a request with only key, src and hl was sent, its r, f and ssml fields empty
C17_Witness ==
  /\ Len(calls) = 1 /\ Len(xhrs) = 1 /\ calls[1].xhr = 1
  /\ DOMAIN calls[1].args[1] = {"key", "src", "hl"}
  /\ HasField(xhrs[1].requestBody, <<"r">>, <<>>)
  /\ HasField(xhrs[1].requestBody, <<"f">>, <<>>)
  /\ HasField(xhrs[1].requestBody, <<"s","s","m","l">>, <<>>)

\* the rate 0 was passed and the r field is empty
C17_WitnessZeroRate ==
  /\ Len(calls) = 1 /\ Len(xhrs) = 1 /\ calls[1].xhr = 1
  /\ "r" \in DOMAIN calls[1].args[1] /\ calls[1].args[1].r = 0
  /\ HasField(xhrs[1].requestBody, <<"r">>, <<>>)

\* the requests whose response arrives in this step
Arrived == {k \in 1..Len(xhrs) : Len(xhrs') = Len(xhrs) /\ xhrs[k].readyState # 4
                                   /\ xhrs'[k].readyState = 4}

\* the response of request k is a successful speech response
Successful(k) == xhrs[k].status = 200 /\ ~BeginsWithERROR(xhrs[k].responseText)

\* C18: where the playback element exists, its source is the body of the most
\* recently arrived successful speech response: it is empty until one arrives,
\* the arrival of a successful response of any cycle sets it to that body, and
\* no other step changes it.
C18_SourceIsLatestSuccess ==
  /\ [](audioPresent /\ (\A k \in 1..Len(xhrs) : xhrs[k].readyState = 4 => ~Successful(k))
          => audioSrc = <<>>)
  /\ [][/\ \A k \in Arrived :
              (audioPresent /\ Successful(k)') => audioSrc' = xhrs'[k].responseText
        /\ (\A k \in Arrived : ~Successful(k)') => audioSrc' = audioSrc]_vars

\* two requests were outstanding and the response of the older one arrived last:
\* the source is the audio of the older joke, the display shows the newer joke
C18_Witness ==
  /\ audioPresent /\ Len(inv) = 2 /\ Len(xhrs) = 2
  /\ calls[inv[1].call].xhr = 1 /\ calls[inv[2].call].xhr = 2
  /\ inv[1].joke # inv[2].joke /\ textContent = inv[2].joke
  /\ xhrs[1].readyState = 4 /\ xhrs[1].status = 200 /\ xhrs[1].responseText = AudioA
  /\ xhrs[2].readyState = 4 /\ xhrs[2].status = 200 /\ xhrs[2].responseText = ErrorInside
  /\ audioSrc = AudioA

\* the cycles whose joke fetch succeeded: VoiceRSS.speech was called
FetchSucceeded == {i \in 1..Len(inv) : inv[i].call # 0}

\* C19: every request sent belongs to exactly one call of speech, made by exactly
\* one cycle whose joke fetch succeeded; the requests sent are at most the
\* successful joke fetches, and the assignments of the playback source are at
\* most the requests whose response has arrived.
C19_PostsBoundedByFetches ==
  /\ \A k \in 1..Len(xhrs) :
       \E n \in 1..Len(calls) :
         /\ calls[n].xhr = k
         /\ PostedOnce(n)
         /\ Cardinality({i \in FetchSucceeded : inv[i].call = n}) = 1
  /\ Len(xhrs) <= Cardinality(FetchSucceeded)
  /\ plays <= Cardinality({k \in 1..Len(xhrs) : xhrs[k].readyState = 4})
  /\ plays <= Len(xhrs)

\* two cycles fetched a joke, each sent one request, each response set the source
C19_Witness ==
  /\ Cardinality(FetchSucceeded) = 2 /\ Len(xhrs) = 2 /\ plays = 2
  /\ xhrs[1].readyState = 4 /\ xhrs[2].readyState = 4

\* a cycle fetched a joke and sent no request: fewer requests than fetches
C19_WitnessFewer ==
  /\ Cardinality(FetchSucceeded) = 2 /\ Len(xhrs) = 1 /\ plays = 1

====
